---- MODULE Spec2Model ----
(***************************************************************************)
(* Model of taiga's src/base/file.cpp: thin wrappers over the Win32 file,  *)
(* shell and registry API.  Strings are sequences of one-character         *)
(* strings; the file system, the registry and the outcome of every OS call *)
(* are the environment.                                                    *)
(***************************************************************************)
EXTENDS Integers, Sequences, FiniteSets, TLC

VARIABLES fs, openHandles, call

vars == <<fs, openHandles, call>>

(***************************************************************************)
(* Bounds                                                                  *)
(***************************************************************************)
MaxPathLen == 5
Window == 2
MaxLowPart == 1

(***************************************************************************)
(* Characters and the string helpers of base/string.h                      *)
(***************************************************************************)
BS == "\\"

Digits == <<"0", "1", "2", "3", "4", "5", "6", "7", "8", "9">>

UpperLetters == <<"A", "B", "C", "D", "E", "F", "G", "H", "I", "J", "K", "L", "M", "N", "O", "P", "Q", "R", "S", "T", "U", "V", "W", "X", "Y", "Z">>

LowerLetters == <<"a", "b", "c", "d", "e", "f", "g", "h", "i", "j", "k", "l", "m", "n", "o", "p", "q", "r", "s", "t", "u", "v", "w", "x", "y", "z">>

IsNumericChar(c) == \E i \in 1..10 : Digits[i] = c

DigitValue(c) == (CHOOSE i \in 1..10 : Digits[i] = c) - 1

ToLowerChar(c) ==
  IF \E i \in 1..26 : UpperLetters[i] = c
  THEN LowerLetters[CHOOSE i \in 1..26 : UpperLetters[i] = c]
  ELSE c

IsEqual(str1, str2) ==
  /\ Len(str1) = Len(str2)
  /\ \A i \in 1..Len(str1) : ToLowerChar(str1[i]) = ToLowerChar(str2[i])

StartsWith(str1, str2) ==
  /\ Len(str2) <= Len(str1)
  /\ SubSeq(str1, 1, Len(str2)) = str2

RECURSIVE TrimRight(_, _)
TrimRight(str, chars) ==
  IF str # <<>> /\ str[Len(str)] \in chars
  THEN TrimRight(SubSeq(str, 1, Len(str) - 1), chars)
  ELSE str

RECURSIVE TrimLeft(_, _)
TrimLeft(str, chars) ==
  IF str # <<>> /\ str[1] \in chars
  THEN TrimLeft(Tail(str), chars)
  ELSE str

Trim(str, chars) == TrimLeft(TrimRight(str, chars), chars)

EraseChars(str, chars) == SelectSeq(str, LAMBDA c : c \notin chars)

(***************************************************************************)
(* GetExtendedLengthPath                                                   *)
(***************************************************************************)
ExtPrefix == <<BS, BS, "?", BS>>

\* The UNC test made before the test for the prefix.
GetExtendedLengthPath_UncFirst(path) ==
  IF StartsWith(path, <<BS, BS>>)
  THEN ExtPrefix \o <<"U", "N", "C", BS>> \o SubSeq(path, 3, Len(path))
  ELSE ExtPrefix \o path

GetExtendedLengthPath(path) ==
  IF StartsWith(path, ExtPrefix)
  THEN path
  ELSE IF StartsWith(path, <<BS, BS>>)
       THEN ExtPrefix \o <<"U", "N", "C", BS>> \o SubSeq(path, 3, Len(path))
       ELSE ExtPrefix \o path

RECURSIVE SeqsUpTo(_, _)
SeqsUpTo(S, n) ==
  IF n = 0 THEN {<<>>}
  ELSE LET shorter == SeqsUpTo(S, n - 1)
       IN  shorter \cup {Append(s, c) : s \in shorter, c \in S}

PathChars == {BS, "?", "C"}

PathInputs == SeqsUpTo(PathChars, MaxPathLen)

CallGetExtendedLengthPath ==
  /\ call.op = "pending"
  /\ call.fn = "GetExtendedLengthPath"
  /\ call' = [op |-> "GetExtendedLengthPath", path |-> call.path,
              ret |-> GetExtendedLengthPath(call.path)]
  /\ UNCHANGED <<fs, openHandles>>

(***************************************************************************)
(* Number <-> text conversions of base/string.h                            *)
(***************************************************************************)
RECURSIVE ToWstr(_)
ToWstr(value) ==
  IF value < 10 THEN <<Digits[value + 1]>>
  ELSE Append(ToWstr(value \div 10), Digits[(value % 10) + 1])

\* value * mul \div unit and its remainder, for value < unit <= 2^30 and
\* mul <= 200, keeping every intermediate value below 2^31.
MulDiv(value, mul, unit) ==
  IF value < 16777216 \div mul
  THEN [quot |-> (value * mul) \div unit, rem |-> (value * mul) % unit]
  ELSE LET S  == 32768
           V  == unit \div S
           A  == mul * (value \div S)
           T  == (A % V) * S + mul * (value % S)
       IN  [quot |-> (A \div V) + (T \div unit), rem |-> T % unit]

\* The quotient qwSize / unit is exact in a double (unit is a power of two);
\* the fixed two-digit formatting rounds it to the nearest hundredth and the
\* C runtime decides a tie (tieUp).
RoundToHundredths(qwSize, unit, tieUp) ==
  LET md == MulDiv(qwSize % unit, 100, unit)
      up == \/ md.rem > unit - md.rem
            \/ (md.rem = unit - md.rem /\ tieUp)
  IN  (qwSize \div unit) * 100 + md.quot + (IF up THEN 1 ELSE 0)

ToWstrFixed(hundredths) ==
  ToWstr(hundredths \div 100) \o <<".">> \o
  <<Digits[((hundredths % 100) \div 10) + 1], Digits[(hundredths % 10) + 1]>>

\* Longest prefix of digits of str, as a number.
RECURSIVE DigitPrefixLen(_)
DigitPrefixLen(str) ==
  IF str # <<>> /\ IsNumericChar(str[1]) THEN 1 + DigitPrefixLen(Tail(str)) ELSE 0

RECURSIVE DigitsValue(_)
DigitsValue(str) ==
  IF str = <<>> THEN 0
  ELSE 10 * DigitsValue(SubSeq(str, 1, Len(str) - 1)) + DigitValue(str[Len(str)])

RECURSIVE Pow10(_)
Pow10(n) == IF n = 0 THEN 1 ELSE 10 * Pow10(n - 1)

\* The decimal number at the start of str: ip + fnum / fden.
ToDouble(str) ==
  LET n    == DigitPrefixLen(str)
      rest == SubSeq(str, n + 1, Len(str))
      m    == IF rest # <<>> /\ rest[1] = "." THEN DigitPrefixLen(Tail(rest)) ELSE 0
  IN  [ip   |-> DigitsValue(SubSeq(str, 1, n)),
       fnum |-> DigitsValue(SubSeq(rest, 2, m + 1)),
       fden |-> Pow10(m)]

\* static_cast<UINT64>(size * d)
TruncatedProduct(size, d) ==
  size * d.ip + (size \div d.fden) * d.fnum + ((size % d.fden) * d.fnum) \div d.fden

(***************************************************************************)
(* ParseSizeString / ToSizeString                                          *)
(***************************************************************************)
RECURSIVE TrailingUnitLen(_)
TrailingUnitLen(value) ==
  IF value = <<>> \/ IsNumericChar(value[Len(value)]) THEN 0
  ELSE 1 + TrailingUnitLen(SubSeq(value, 1, Len(value) - 1))

\* KB read as the binary kilobyte.
UnitMultiplier_BinaryKB(unit) ==
  IF IsEqual(unit, <<"K", "B">>) \/ IsEqual(unit, <<"K", "i", "B">>) THEN 1024
  ELSE IF IsEqual(unit, <<"M", "B">>) THEN 1000 * 1000
  ELSE IF IsEqual(unit, <<"M", "i", "B">>) THEN 1024 * 1024
  ELSE IF IsEqual(unit, <<"G", "B">>) THEN 1000 * 1000 * 1000
  ELSE IF IsEqual(unit, <<"G", "i", "B">>) THEN 1024 * 1024 * 1024
  ELSE 1

UnitMultiplier(unit) ==
  IF IsEqual(unit, <<"K", "B">>) THEN 1000
  ELSE IF IsEqual(unit, <<"K", "i", "B">>) THEN 1024
  ELSE IF IsEqual(unit, <<"M", "B">>) THEN 1000 * 1000
  ELSE IF IsEqual(unit, <<"M", "i", "B">>) THEN 1024 * 1024
  ELSE IF IsEqual(unit, <<"G", "B">>) THEN 1000 * 1000 * 1000
  ELSE IF IsEqual(unit, <<"G", "i", "B">>) THEN 1024 * 1024 * 1024
  ELSE 1

ParseSizeString(input) ==
  LET value0 == EraseChars(TrimRight(input, {".", "\r"}), {" "})
      ulen   == IF Len(value0) >= 2 THEN TrailingUnitLen(value0) ELSE 0
      unit   == Trim(SubSeq(value0, Len(value0) - ulen + 1, Len(value0)), {" "})
      value  == SubSeq(value0, 1, Len(value0) - ulen)
  IN  TruncatedProduct(UnitMultiplier(unit), ToDouble(value))

\* The kilobyte branch dividing by 1000.
ToSizeString_DecimalKB(qwSize, tieUp) ==
  IF qwSize > 1073741824
  THEN ToWstrFixed(RoundToHundredths(qwSize, 1073741824, tieUp)) \o <<" ", "G", "B">>
  ELSE IF qwSize > 1048576
  THEN ToWstrFixed(RoundToHundredths(qwSize, 1048576, tieUp)) \o <<" ", "M", "B">>
  ELSE IF qwSize > 1024
  THEN ToWstrFixed(RoundToHundredths(qwSize, 1000, tieUp)) \o <<" ", "K", "B">>
  ELSE ToWstr(qwSize) \o <<" ", "b", "y", "t", "e", "s">>

ToSizeString(qwSize, tieUp) ==
  IF qwSize > 1073741824
  THEN ToWstrFixed(RoundToHundredths(qwSize, 1073741824, tieUp)) \o <<" ", "G", "B">>
  ELSE IF qwSize > 1048576
  THEN ToWstrFixed(RoundToHundredths(qwSize, 1048576, tieUp)) \o <<" ", "M", "B">>
  ELSE IF qwSize > 1024
  THEN ToWstrFixed(RoundToHundredths(qwSize, 1024, tieUp)) \o <<" ", "K", "B">>
  ELSE ToWstr(qwSize) \o <<" ", "b", "y", "t", "e", "s">>

(***************************************************************************)
(* Inputs of the size-string functions                                     *)
(***************************************************************************)

\* Numerals with the value they denote, in hundredths.
SmallNumerals ==
  { [text |-> <<>>, h |-> 0],
    [text |-> <<"0">>, h |-> 0],
    [text |-> <<"1">>, h |-> 100],
    [text |-> <<"0", "1">>, h |-> 100],
    [text |-> <<"1", ".", "5">>, h |-> 150],
    [text |-> <<"1", ".", "2", "5">>, h |-> 125],
    [text |-> <<"0", ".", "7", "5">>, h |-> 75],
    [text |-> <<"1", ".", "9", "9">>, h |-> 199] }

LargeNumerals ==
  { [text |-> <<"1", "2">>, h |-> 1200],
    [text |-> <<"2", ".", "5">>, h |-> 250],
    [text |-> <<"1", "0", "2", "3", ".", "9", "9">>, h |-> 102399] }

SmallUnits ==
  { <<>>, <<"K", "B">>, <<"K", "i", "B">>, <<"M", "B">>, <<"M", "i", "B">>,
    <<"k", "b">>, <<"m", "I", "b">>, <<"T", "B">>, <<"B">>, <<"K">>,
    <<"b", "y", "t", "e", "s">>, <<"K", "B", "s">> }

LargeUnits == { <<"G", "B">>, <<"G", "i", "B">>, <<"g", "i", "b">> }

Spacings == { <<>>, <<" ">> }

Trailers == { <<>>, <<".">>, <<"\r">>, <<".", "\r">>, <<" ">> }

SizeCentres ==
  { 1024, 1034, 1536, 1048576, 1572864, 1073741824, 1610612736, 2000000000 }

SizeInputs ==
  (0..Window) \cup UNION { (c - Window)..(c + Window) : c \in SizeCentres }

CallParseSizeString ==
  /\ call.op = "pending"
  /\ call.fn = "ParseSizeString"
  /\ call' = [op |-> "ParseSizeString", num |-> call.num, unit |-> call.unit,
              value |-> call.value, ret |-> ParseSizeString(call.value)]
  /\ UNCHANGED <<fs, openHandles>>

CallToSizeString ==
  /\ call.op = "pending"
  /\ call.fn = "ToSizeString"
  /\ call' = [op |-> "ToSizeString", qwSize |-> call.qwSize,
              ret |-> ToSizeString(call.qwSize, call.tieUp)]
  /\ UNCHANGED <<fs, openHandles>>

\* The calls a caller can make on the pure functions.
TextCalls ==
  { [op |-> "pending", fn |-> "GetExtendedLengthPath", path |-> path] :
      path \in PathInputs }
  \cup
  { [op |-> "pending", fn |-> "ParseSizeString", num |-> x[1][1],
     unit |-> x[1][2], value |-> x[1][1].text \o x[2] \o x[1][2] \o x[3]] :
      x \in ((SmallNumerals \X (SmallUnits \cup LargeUnits))
             \cup (LargeNumerals \X SmallUnits)) \X Spacings \X Trailers }
  \cup
  { [op |-> "pending", fn |-> "ToSizeString", qwSize |-> qwSize, tieUp |-> tieUp] :
      qwSize \in SizeInputs, tieUp \in BOOLEAN }

InitText ==
  /\ fs = <<>>
  /\ openHandles = 0
  /\ call \in TextCalls

NextText ==
  \/ CallGetExtendedLengthPath
  \/ CallParseSizeString
  \/ CallToSizeString

SpecText == InitText /\ [][NextText]_vars

(***************************************************************************)
(* The file system seen through the Win32 calls                            *)
(***************************************************************************)
FilePath == <<"f">>

BakSuffix == <<".", "b", "a", "k">>

BakPath == FilePath \o BakSuffix

DirPath == <<"d">>

FsNames == {FilePath, BakPath, DirPath}

NoNode == [kind |-> "none"]

DirNode == [kind |-> "dir"]

\* A file: whose bytes it holds (tag) and its size as a LARGE_INTEGER.
FileNode(tag, high, low) ==
  [kind |-> "file", tag |-> tag, HighPart |-> high, LowPart |-> low]

\* The node a path names; the extended-length form names the same node.
OsName(path) ==
  IF \E n \in FsNames : n = path \/ GetExtendedLengthPath(n) = path
  THEN CHOOSE n \in FsNames : n = path \/ GetExtendedLengthPath(n) = path
  ELSE <<>>

OsNode(files, path) ==
  IF OsName(path) \in FsNames THEN files[OsName(path)] ELSE NoNode

\* CreateFile(GENERIC_READ, FILE_SHARE_READ, OPEN_EXISTING): the handle, or
\* INVALID_HANDLE_VALUE.  os.open is the part of the outcome the path does
\* not decide (access rights, sharing with other processes).
OpenFileForGenericRead(files, path, os) ==
  LET node == OsNode(files, GetExtendedLengthPath(path))
  IN  [valid |-> node.kind = "file" /\ os.open, node |-> node]

\* CreateFile(GENERIC_WRITE, share 0, CREATE_ALWAYS): creates or truncates.
\* It fails on a directory.
OpenFileForGenericWrite(files, path, os) ==
  LET ext  == GetExtendedLengthPath(path)
      node == OsNode(files, ext)
      ok   == /\ OsName(ext) \in FsNames
              /\ node.kind # "dir"
              /\ os.open
  IN  [valid |-> ok,
       files |-> IF ok THEN [files EXCEPT ![OsName(ext)] = FileNode("empty", 0, 0)]
                 ELSE files]

\* MoveFileEx(from, to, MOVEFILE_REPLACE_EXISTING | MOVEFILE_WRITE_THROUGH)
MoveFileEx(files, from, to, os) ==
  LET ok == /\ OsName(from) \in FsNames
            /\ OsName(to) \in FsNames
            /\ OsNode(files, from).kind = "file"
            /\ OsNode(files, to).kind # "dir"
            /\ os.move
  IN  IF ok THEN [files EXCEPT ![OsName(to)] = files[OsName(from)],
                               ![OsName(from)] = NoNode]
      ELSE files

\* GetFileAttributes: "invalid", "dir" or "file".
GetFileAttributes(files, path, os) ==
  LET node == OsNode(files, path)
  IN  IF node.kind = "none" \/ ~os.attr THEN "invalid" ELSE node.kind

ZeroSize == [HighPart |-> 0, LowPart |-> 0]

DateText == <<"2", "0", "1", "8", "-", "0", "1", "-", "0", "1">>

(***************************************************************************)
(* Metadata and existence queries.  Each returns its result together with  *)
(* the handles it opened and closed.                                       *)
(***************************************************************************)
GetFileAge(files, path, os) ==
  LET file_handle == OpenFileForGenericRead(files, path, os)
  IN  IF ~file_handle.valid THEN [ret |-> 0, opened |-> 0, closed |-> 0, attempts |-> 1]
      ELSE IF ~os.time THEN [ret |-> 0, opened |-> 1, closed |-> 1, attempts |-> 1]
      ELSE [ret |-> os.age, opened |-> 1, closed |-> 1, attempts |-> 1]

GetFileLastModifiedDate(files, path, os) ==
  LET file_handle == OpenFileForGenericRead(files, path, os)
  IN  IF file_handle.valid
      THEN IF os.time /\ os.convert
           THEN [ret |-> DateText, opened |-> 1, closed |-> 1, attempts |-> 1]
           ELSE [ret |-> <<>>, opened |-> 1, closed |-> 1, attempts |-> 1]
      ELSE [ret |-> <<>>, opened |-> 0, closed |-> 0, attempts |-> 1]

GetFileSize(files, path, os) ==
  LET file_handle == OpenFileForGenericRead(files, path, os)
  IN  IF file_handle.valid
      THEN [ret |-> IF os.size
                    THEN [HighPart |-> file_handle.node.HighPart,
                          LowPart |-> file_handle.node.LowPart]
                    ELSE ZeroSize,
            opened |-> 1, closed |-> 1, attempts |-> 1]
      ELSE [ret |-> ZeroSize, opened |-> 0, closed |-> 0, attempts |-> 1]

\* Without the test for the empty path.
FileExists_NoEmptyTest(files, file, os) ==
  LET file_handle == OpenFileForGenericRead(files, file, os)
  IN  IF file_handle.valid
      THEN [ret |-> TRUE, opened |-> 1, closed |-> 1, attempts |-> 1]
      ELSE [ret |-> FALSE, opened |-> 0, closed |-> 0, attempts |-> 1]

FileExists(files, file, os) ==
  IF file = <<>> THEN [ret |-> FALSE, opened |-> 0, closed |-> 0, attempts |-> 0]
  ELSE LET file_handle == OpenFileForGenericRead(files, file, os)
       IN  IF file_handle.valid
           THEN [ret |-> TRUE, opened |-> 1, closed |-> 1, attempts |-> 1]
           ELSE [ret |-> FALSE, opened |-> 0, closed |-> 0, attempts |-> 1]

FolderExists(files, path, os) ==
  LET file_attr == GetFileAttributes(files, GetExtendedLengthPath(path), os)
  IN  [ret |-> file_attr # "invalid" /\ file_attr = "dir",
       opened |-> 0, closed |-> 0, attempts |-> 0]

PathExists(files, path, os) ==
  LET file_attr == GetFileAttributes(files, GetExtendedLengthPath(path), os)
  IN  [ret |-> file_attr # "invalid", opened |-> 0, closed |-> 0, attempts |-> 0]

(***************************************************************************)
(* Whole-file read and write                                               *)
(***************************************************************************)

\* A std::string: whose bytes it holds, its size() as a size_t and how many
\* of its bytes came from the file.
EmptyString == [tag |-> "none", size |-> ZeroSize, filled |-> 0]

\* static_cast<size_t>(file_size.QuadPart): the low 32 bits on a Win32 build.
ToSizeT(quad, wide) ==
  [HighPart |-> IF wide THEN quad.HighPart ELSE 0, LowPart |-> quad.LowPart]

Min(a, b) == IF a <= b THEN a ELSE b

\* ReadFile(handle, buffer, DWORD count): os.read is its result, os.bytes
\* bounds what a shrinking file still delivers.
ReadFile(count, os) ==
  [result |-> os.read, bytes_read |-> IF os.read THEN Min(os.bytes, count) ELSE 0]

ReadFromFile(files, path, output, os) ==
  LET file_handle == OpenFileForGenericRead(files, path, os)
      file_size   == [HighPart |-> file_handle.node.HighPart,
                      LowPart |-> file_handle.node.LowPart]
      resized     == ToSizeT(file_size, os.wide)
      rd          == ReadFile(resized.LowPart, os)
  IN  IF ~file_handle.valid
      THEN [ret |-> FALSE, output |-> output, opened |-> 0, closed |-> 0,
            attempts |-> 1, reported |-> ZeroSize, bytes_read |-> 0]
      ELSE IF ~os.size
      THEN [ret |-> FALSE, output |-> output, opened |-> 1, closed |-> 0,
            attempts |-> 1, reported |-> ZeroSize, bytes_read |-> 0]
      ELSE [ret |-> rd.result /\ [HighPart |-> 0, LowPart |-> rd.bytes_read] = resized,
            output |-> [tag |-> file_handle.node.tag, size |-> resized,
                        filled |-> rd.bytes_read],
            opened |-> 1, closed |-> 1, attempts |-> 1,
            reported |-> file_size, bytes_read |-> rd.bytes_read]

\* WriteFile(handle, data, length): the file's contents afterwards.
WriteFile(data, length, os) ==
  IF os.write THEN FileNode(data, 0, length)
  ELSE FileNode(data, 0, Min(os.written, length))

SaveToFile(files, data, length, path, take_backup, os) ==
  LET backed == IF take_backup
                THEN MoveFileEx(files, path, path \o BakSuffix, os)
                ELSE files
      file_handle == OpenFileForGenericWrite(backed, path, os)
  IN  IF file_handle.valid
      THEN [ret |-> os.write,
            files |-> [file_handle.files EXCEPT
                         ![OsName(path)] = WriteFile(data, length, os)],
            opened |-> 1, closed |-> 1, attempts |-> 1]
      ELSE [ret |-> FALSE, files |-> file_handle.files,
            opened |-> 0, closed |-> 0, attempts |-> 1]

(***************************************************************************)
(* The calls on the file functions                                         *)
(***************************************************************************)
QueryPaths ==
  { <<>>, FilePath, BakPath, DirPath, GetExtendedLengthPath(FilePath), <<"m">> }

QueryFns ==
  { "GetFileAge", "GetFileLastModifiedDate", "GetFileSize", "FileExists",
    "FolderExists", "PathExists" }

PreviousString ==
  [tag |-> "prev", size |-> [HighPart |-> 0, LowPart |-> 1], filled |-> 0]

FileCalls ==
  { [op |-> "pending", fn |-> fn, path |-> path] : fn \in QueryFns, path \in QueryPaths }
  \cup
  { [op |-> "pending", fn |-> "ReadFromFile", path |-> path, output |-> output] :
      path \in {FilePath, BakPath, DirPath}, output \in {EmptyString, PreviousString} }
  \cup
  { [op |-> "pending", fn |-> "SaveToFile", path |-> FilePath, data |-> "new",
     length |-> length, take_backup |-> take_backup] :
      length \in 0..MaxLowPart, take_backup \in BOOLEAN }

InitialFiles ==
  { [n \in FsNames |-> IF n = FilePath THEN f ELSE IF n = BakPath THEN b ELSE DirNode] :
      f \in {NoNode} \cup { FileNode("old", h, l) : h \in 0..1, l \in 0..MaxLowPart },
      b \in {NoNode, FileNode("bak", 0, 1)} }

\* What a completed call leaves for the claims: the call, what its path
\* named at entry, the files at entry, the result and the handle balance.
Completed(r) ==
  [op |-> call.fn, path |-> call.path,
   kind |-> OsNode(fs, GetExtendedLengthPath(call.path)).kind,
   before |-> fs, entry |-> openHandles, ret |-> r.ret, attempts |-> r.attempts]

Pending(fn) == call.op = "pending" /\ call.fn = fn

CallGetFileAge ==
  /\ Pending("GetFileAge")
  /\ \E open \in BOOLEAN, time \in BOOLEAN, age \in {0, 7} :
       LET r == GetFileAge(fs, call.path, [open |-> open, time |-> time, age |-> age])
       IN  /\ call' = Completed(r)
           /\ openHandles' = openHandles + r.opened - r.closed
  /\ UNCHANGED fs

CallGetFileLastModifiedDate ==
  /\ Pending("GetFileLastModifiedDate")
  /\ \E open \in BOOLEAN, time \in BOOLEAN, convert \in BOOLEAN :
       LET r == GetFileLastModifiedDate(fs, call.path,
                  [open |-> open, time |-> time, convert |-> convert])
       IN  /\ call' = Completed(r)
           /\ openHandles' = openHandles + r.opened - r.closed
  /\ UNCHANGED fs

CallGetFileSize ==
  /\ Pending("GetFileSize")
  /\ \E open \in BOOLEAN, size \in BOOLEAN :
       LET r == GetFileSize(fs, call.path, [open |-> open, size |-> size])
       IN  /\ call' = Completed(r)
           /\ openHandles' = openHandles + r.opened - r.closed
  /\ UNCHANGED fs

CallFileExists ==
  /\ Pending("FileExists")
  /\ \E open \in BOOLEAN :
       LET r == FileExists(fs, call.path, [open |-> open])
       IN  /\ call' = Completed(r)
           /\ openHandles' = openHandles + r.opened - r.closed
  /\ UNCHANGED fs

CallFolderExists ==
  /\ Pending("FolderExists")
  /\ \E attr \in BOOLEAN :
       LET r == FolderExists(fs, call.path, [attr |-> attr])
       IN  /\ call' = Completed(r)
           /\ openHandles' = openHandles + r.opened - r.closed
  /\ UNCHANGED fs

CallPathExists ==
  /\ Pending("PathExists")
  /\ \E attr \in BOOLEAN :
       LET r == PathExists(fs, call.path, [attr |-> attr])
       IN  /\ call' = Completed(r)
           /\ openHandles' = openHandles + r.opened - r.closed
  /\ UNCHANGED fs

CallReadFromFile ==
  /\ Pending("ReadFromFile")
  /\ \E open \in BOOLEAN, size \in BOOLEAN, read \in BOOLEAN,
        bytes \in 0..MaxLowPart, wide \in BOOLEAN :
       LET r == ReadFromFile(fs, call.path, call.output,
                  [open |-> open, size |-> size, read |-> read,
                   bytes |-> bytes, wide |-> wide])
       IN  /\ call' = [Completed(r) EXCEPT !.ret = r.ret] @@
                      [given |-> call.output, output |-> r.output,
                       opened |-> r.opened, sizeOk |-> size, readOk |-> read,
                       reported |-> r.reported, bytes_read |-> r.bytes_read]
           /\ openHandles' = openHandles + r.opened - r.closed
  /\ UNCHANGED fs

CallSaveToFile ==
  /\ Pending("SaveToFile")
  /\ \E move \in BOOLEAN, denied \in BOOLEAN, write \in BOOLEAN,
        written \in 0..MaxLowPart :
       LET r == SaveToFile(fs, call.data, call.length, call.path, call.take_backup,
                  [move |-> move, open |-> ~denied, write |-> write,
                   written |-> written])
       IN  /\ call' = Completed(r) @@
                      [data |-> call.data, length |-> call.length,
                       take_backup |-> call.take_backup]
           /\ fs' = r.files
           /\ openHandles' = openHandles + r.opened - r.closed

InitFile ==
  /\ fs \in InitialFiles
  /\ openHandles = 0
  /\ call \in FileCalls

NextFile ==
  \/ CallGetFileAge
  \/ CallGetFileLastModifiedDate
  \/ CallGetFileSize
  \/ CallFileExists
  \/ CallFolderExists
  \/ CallPathExists
  \/ CallReadFromFile
  \/ CallSaveToFile

SpecFile == InitFile /\ [][NextFile]_vars

(***************************************************************************)
(* Shell launch                                                            *)
(***************************************************************************)
MAX_PATH == 260

QUOTE == "\""

RECURSIVE LastDot(_)
LastDot(str) ==
  IF str = <<>> THEN 0
  ELSE IF str[Len(str)] = "." THEN Len(str)
  ELSE LastDot(SubSeq(str, 1, Len(str) - 1))

\* The characters after the last dot; nothing when there is no dot.
GetFileExtension(str) ==
  IF LastDot(str) = 0 THEN <<>> ELSE SubSeq(str, LastDot(str) + 1, Len(str))

\* The characters before the last dot; everything when there is no dot.
GetFileWithoutExtension(str) ==
  IF LastDot(str) = 0 THEN str ELSE SubSeq(str, 1, LastDot(str) - 1)

\* win::Registry under HKEY_CLASSES_ROOT: the default value of a subkey,
\* empty when the key or the value is missing.
QueryValue(reg, subkey) ==
  IF subkey = reg.extension THEN reg.progid
  ELSE IF reg.progid # <<>> /\ subkey = reg.progid \o <<BS, "s", "h", "e", "l", "l", BS, "o", "p", "e", "n", BS, "c", "o", "m", "m", "a", "n", "d">>
  THEN reg.command
  ELSE <<>>

\* The number of characters before the first space outside quotes.
RECURSIVE CommandEnd(_, _, _)
CommandEnd(path, position, inside_quotes) ==
  IF position > Len(path) THEN Len(path)
  ELSE IF path[position] = " " /\ ~inside_quotes THEN position - 1
  ELSE CommandEnd(path, position + 1,
                  IF path[position] = QUOTE THEN ~inside_quotes ELSE inside_quotes)

GetDefaultAppPath(reg, extension, default_value) ==
  LET progid  == QueryValue(reg, extension)
      command == IF progid # <<>>
                 THEN QueryValue(reg, progid \o <<BS, "s", "h", "e", "l", "l", BS, "o", "p", "e", "n", BS, "c", "o", "m", "m", "a", "n", "d">>)
                 ELSE progid
      path    == IF command # <<>>
                 THEN Trim(SubSeq(command, 1, CommandEnd(command, 1, FALSE)),
                           {QUOTE, " "})
                 ELSE command
  IN  IF path = <<>> THEN default_value ELSE path

\* Each result lists the ShellExecute calls and the CreateProcess calls made.
ExecuteFile(reg, path, parameters, os) ==
  LET exe_path == GetDefaultAppPath(reg, <<".">> \o GetFileExtension(path), <<>>)
      command  == <<QUOTE>> \o exe_path \o <<QUOTE, " ", QUOTE>>
                  \o GetExtendedLengthPath(path) \o <<QUOTE, " ">> \o parameters
  IN  IF exe_path = <<>>
      THEN [ret |-> FALSE, shell |-> <<>>, spawn |-> <<>>, created |-> FALSE]
      ELSE IF ~os.create
      THEN [ret |-> FALSE, shell |-> <<>>, spawn |-> <<command>>, created |-> FALSE]
      ELSE [ret |-> TRUE, shell |-> <<>>, spawn |-> <<command>>, created |-> TRUE]

\* The length test as >= MAX_PATH.
Execute_AtMaxPath(reg, path, parameters, os) ==
  IF path = <<>>
  THEN [ret |-> FALSE, shell |-> <<>>, spawn |-> <<>>, created |-> FALSE]
  ELSE IF Len(path) >= MAX_PATH
  THEN ExecuteFile(reg, path, parameters, os)
  ELSE [ret |-> os.value > 32,
        shell |-> <<[file |-> path, parameters |-> parameters]>>,
        spawn |-> <<>>, created |-> FALSE]

Execute(reg, path, parameters, os) ==
  IF path = <<>>
  THEN [ret |-> FALSE, shell |-> <<>>, spawn |-> <<>>, created |-> FALSE]
  ELSE IF Len(path) > MAX_PATH
  THEN ExecuteFile(reg, path, parameters, os)
  ELSE [ret |-> os.value > 32,
        shell |-> <<[file |-> path, parameters |-> parameters]>>,
        spawn |-> <<>>, created |-> FALSE]

\* The registry states: what is registered for .txt, and the handler
\* executable that registration names.
TxtExt == <<".", "t", "x", "t">>

Registries ==
  { [extension |-> TxtExt, progid |-> <<>>, command |-> <<>>, handler |-> <<>>],
    [extension |-> TxtExt, progid |-> <<"t">>, command |-> <<>>, handler |-> <<>>],
    [extension |-> TxtExt, progid |-> <<"t">>,
     command |-> <<"n", ".", "e", "x", "e", " ", "%", "1">>,
     handler |-> <<"n", ".", "e", "x", "e">>],
    [extension |-> TxtExt, progid |-> <<"t">>,
     command |-> <<QUOTE, "a", " ", "b", ".", "e", "x", "e", QUOTE, " ", QUOTE, "%", "1", QUOTE>>,
     handler |-> <<"a", " ", "b", ".", "e", "x", "e">>],
    [extension |-> TxtExt, progid |-> <<"t">>,
     command |-> <<QUOTE, " ", QUOTE, " ", "%", "1">>, handler |-> <<>>] }

Padded(n, tail) == [i \in 1..n |-> "a"] \o tail

ExecPaths ==
  { <<>>, <<"r", ".", "t", "x", "t">>,
    <<BS, BS, "s", BS, "r", ".", "t", "x", "t">>,
    Padded(MAX_PATH - 4, TxtExt), Padded(MAX_PATH - 3, TxtExt),
    Padded(MAX_PATH - 3, <<".", "z", "i", "p">>),
    <<BS, BS, "s", BS>> \o Padded(MAX_PATH, TxtExt) }

ExecParameters == { <<>>, <<"-", "v">> }

ShellCalls ==
  { [op |-> "pending", fn |-> fn, reg |-> reg, path |-> path, parameters |-> ps] :
      fn \in {"Execute", "ExecuteFile"}, reg \in Registries, path \in ExecPaths,
      ps \in ExecParameters }

CallExecute ==
  /\ Pending("Execute")
  /\ \E value \in {2, 32, 33}, create \in BOOLEAN :
       LET r == Execute(call.reg, call.path, call.parameters,
                        [value |-> value, create |-> create])
       IN  call' = [op |-> "Execute", reg |-> call.reg, path |-> call.path,
                    parameters |-> call.parameters, ret |-> r.ret,
                    shell |-> r.shell, spawn |-> r.spawn, created |-> r.created]
  /\ UNCHANGED <<fs, openHandles>>

CallExecuteFile ==
  /\ Pending("ExecuteFile")
  /\ \E create \in BOOLEAN :
       LET r == ExecuteFile(call.reg, call.path, call.parameters, [create |-> create])
       IN  call' = [op |-> "ExecuteFile", reg |-> call.reg, path |-> call.path,
                    parameters |-> call.parameters, ret |-> r.ret,
                    shell |-> r.shell, spawn |-> r.spawn, created |-> r.created]
  /\ UNCHANGED <<fs, openHandles>>

InitShell ==
  /\ fs = <<>>
  /\ openHandles = 0
  /\ call \in ShellCalls

NextShell ==
  \/ CallExecute
  \/ CallExecuteFile

SpecShell == InitShell /\ [][NextShell]_vars

(***************************************************************************)
(* Directory enumeration                                                   *)
(***************************************************************************)

\* A WIN32_FIND_DATA: the entry's name, its directory attribute and, for a
\* directory, what FindFirstFile / FindNextFile deliver inside it.
File(name) == [cFileName |-> name, directory |-> FALSE, entries |-> <<>>]

Folder(name, entries) == [cFileName |-> name, directory |-> TRUE, entries |-> entries]

IsDirectory(find_data) == find_data.directory

IsValidDirectory(find_data) ==
  find_data.cFileName # <<".">> /\ find_data.cFileName # <<".", ".">>

\* FileSearchHelper::Search with callbacks that never stop the search: the
\* entries it hands to on_directory and on_file, in order.  It descends
\* into a subdirectory unless skip_subdirectories is set.
RECURSIVE Search(_, _)
Search(entries, skip_subdirectories) ==
  IF entries = <<>> THEN <<>>
  ELSE LET data == Head(entries)
           here == IF IsDirectory(data)
                   THEN IF IsValidDirectory(data)
                        THEN <<[directory |-> TRUE, name |-> data.cFileName]>>
                             \o (IF skip_subdirectories THEN <<>>
                                 ELSE Search(data.entries, skip_subdirectories))
                        ELSE <<>>
                   ELSE <<[directory |-> FALSE, name |-> data.cFileName]>>
       IN  here \o Search(Tail(entries), skip_subdirectories)

\* The OnFile lambda of PopulateFiles applied to the files found, in order.
RECURSIVE OnFiles(_, _, _, _)
OnFiles(file_list, found, extension, trim_extension) ==
  IF found = <<>> THEN [file_list |-> file_list, file_count |-> 0]
  ELSE LET name == Head(found).name
           take == /\ ~Head(found).directory
                   /\ (extension = <<>> \/ IsEqual(GetFileExtension(name), extension))
           next == IF take
                   THEN Append(file_list,
                               IF trim_extension THEN GetFileWithoutExtension(name)
                               ELSE name)
                   ELSE file_list
           rest == OnFiles(next, Tail(found), extension, trim_extension)
       IN  [file_list |-> rest.file_list,
            file_count |-> rest.file_count + (IF take THEN 1 ELSE 0)]

\* set_skip_subdirectories(recursive) instead of (!recursive).
PopulateFiles_SkipInverted(file_list, entries, extension, recursive, trim_extension) ==
  LET r == OnFiles(file_list, Search(entries, recursive), extension, trim_extension)
  IN  [list |-> r.file_list, ret |-> r.file_count]

PopulateFiles(file_list, entries, extension, recursive, trim_extension) ==
  LET r == OnFiles(file_list, Search(entries, ~recursive), extension,
                   trim_extension)
  IN  [list |-> r.file_list, ret |-> r.file_count]

PopulateFolders(folder_list, entries) ==
  LET found == SelectSeq(Search(entries, TRUE), LAMBDA v : v.directory)
  IN  [list |-> folder_list \o [i \in 1..Len(found) |-> found[i].name],
       ret |-> Len(found)]

Dots == <<Folder(<<".">>, <<>>), Folder(<<".", ".">>, <<>>)>>

Directories ==
  { <<>>,
    Dots \o <<Folder(<<"s">>, <<>>), Folder(<<"t", ".", "m", "k", "v">>, <<>>)>>,
    Dots \o
    << File(<<"a", ".", "m", "k", "v">>),
       File(<<"b", ".", "M", "K", "V">>),
       Folder(<<"s">>, Dots \o << File(<<"d", ".", "m", "k", "v">>),
                                  File(<<"e", ".", "t", "x", "t">>),
                                  Folder(<<"u">>, Dots \o <<File(<<"g", ".", "M", "k", "v">>)>>) >>),
       File(<<"c", ".", "t", "x", "t">>),
       File(<<"m", "k", "v">>),
       File(<<"h", ".", "m", "k", "v", ".", "b", "a", "k">>) >> }

FilterExtensions == { <<>>, <<"m", "k", "v">>, <<"M", "K", "V">>, <<"t", "x", "t">>, <<"k", "v">> }

NameLists == { <<>>, <<<<"x", ".", "m", "k", "v">>>> }

WalkCalls ==
  { [op |-> "pending", fn |-> "PopulateFiles", list |-> list, entries |-> entries,
     extension |-> extension, recursive |-> recursive, trim_extension |-> trim] :
      list \in NameLists, entries \in Directories, extension \in FilterExtensions,
      recursive \in BOOLEAN, trim \in BOOLEAN }
  \cup
  { [op |-> "pending", fn |-> "PopulateFolders", list |-> list, entries |-> entries] :
      list \in NameLists, entries \in Directories }

CallPopulateFiles ==
  /\ Pending("PopulateFiles")
  /\ \E find \in BOOLEAN :
       LET r == PopulateFiles(call.list, IF find THEN call.entries ELSE <<>>,
                              call.extension, call.recursive, call.trim_extension)
       IN  call' = [op |-> "PopulateFiles", given |-> call.list,
                    entries |-> call.entries, extension |-> call.extension,
                    recursive |-> call.recursive,
                    trim_extension |-> call.trim_extension,
                    file_list |-> r.list, ret |-> r.ret]
  /\ UNCHANGED <<fs, openHandles>>

CallPopulateFolders ==
  /\ Pending("PopulateFolders")
  /\ \E find \in BOOLEAN :
       LET r == PopulateFolders(call.list, IF find THEN call.entries ELSE <<>>)
       IN  call' = [op |-> "PopulateFolders", given |-> call.list,
                    entries |-> call.entries, folder_list |-> r.list, ret |-> r.ret]
  /\ UNCHANGED <<fs, openHandles>>

InitWalk ==
  /\ fs = <<>>
  /\ openHandles = 0
  /\ call \in WalkCalls

NextWalk ==
  \/ CallPopulateFiles
  \/ CallPopulateFolders

SpecWalk == InitWalk /\ [][NextWalk]_vars

(***************************************************************************)
(* Claims about the pure functions                                         *)
(***************************************************************************)
HasExtPrefix(p) ==
  Len(p) >= 4 /\ p[1] = BS /\ p[2] = BS /\ p[3] = "?" /\ p[4] = BS

HasUncPrefix(p) == Len(p) >= 2 /\ p[1] = BS /\ p[2] = BS

\* C2: GetExtendedLengthPath leaves an already prefixed path unchanged, turns
\* the two leading backslashes of a UNC path into \\?\UNC\, prefixes every
\* other path with \\?\; the result always starts with \\?\ and applying the
\* function to its own result changes nothing.
C2_ExtendedLengthPath ==
  call.op = "GetExtendedLengthPath" =>
    LET p == call.path
        r == call.ret
    IN  /\ HasExtPrefix(p) => r = p
        /\ (~HasExtPrefix(p) /\ HasUncPrefix(p)) =>
             r = <<BS, BS, "?", BS, "U", "N", "C", BS>> \o SubSeq(p, 3, Len(p))
        /\ (~HasExtPrefix(p) /\ ~HasUncPrefix(p)) => r = <<BS, BS, "?", BS>> \o p
        /\ HasExtPrefix(r)
        /\ GetExtendedLengthPath(r) = r

C2_Witness ==
  /\ call.op = "GetExtendedLengthPath"
  /\ HasUncPrefix(call.path)
  /\ ~HasExtPrefix(call.path)
  /\ Len(call.path) = 4
  /\ call.path[3] = "?"

\* The parts of a formatted size: the text before and after its space.
RECURSIVE SpaceAt(_)
SpaceAt(text) ==
  IF text = <<>> THEN 1
  ELSE IF text[1] = " " THEN 1
  ELSE 1 + SpaceAt(Tail(text))

NumberPart(text) == SubSeq(text, 1, SpaceAt(text) - 1)

SuffixPart(text) == SubSeq(text, SpaceAt(text) + 1, Len(text))

\* C3: ToSizeString renders n >= 2^30 in GB, n >= 2^20 in MB, n >= 2^10 in KB
\* with two decimals, and n < 1024 as a plain integer followed by " bytes";
\* 1024, 2^20 and 2^30 are rendered as 1.00 KB, 1.00 MB and 1.00 GB.
C3_LargestUnitAtLeastOne ==
  call.op = "ToSizeString" =>
    LET n == call.qwSize
        r == call.ret
    IN  /\ SuffixPart(r) =
             (IF n >= 1073741824 THEN <<"G", "B">>
              ELSE IF n >= 1048576 THEN <<"M", "B">>
              ELSE IF n >= 1024 THEN <<"K", "B">>
              ELSE <<"b", "y", "t", "e", "s">>)
        /\ n < 1024 => \A i \in 1..Len(r) : r[i] # "."
        /\ n >= 1024 =>
             /\ Len(NumberPart(r)) >= 4
             /\ NumberPart(r)[Len(NumberPart(r)) - 2] = "."
        /\ n \in {1024, 1048576, 1073741824} => NumberPart(r) = <<"1", ".", "0", "0">>

\* multiplier * h / 100 truncated, h in hundredths.
FloorOfHundredths(multiplier, h) ==
  multiplier * (h \div 100) + (multiplier \div 100) * (h % 100)
    + ((multiplier % 100) * (h % 100)) \div 100

Folded(unit) == [i \in 1..Len(unit) |-> ToLowerChar(unit[i])]

DocumentedMultiplier(unit) ==
  CASE Folded(unit) = <<"k", "b">> -> 1000
    [] Folded(unit) = <<"k", "i", "b">> -> 1024
    [] Folded(unit) = <<"m", "b">> -> 1000000
    [] Folded(unit) = <<"m", "i", "b">> -> 1048576
    [] Folded(unit) = <<"g", "b">> -> 1000000000
    [] Folded(unit) = <<"g", "i", "b">> -> 1073741824
    [] OTHER -> 1

\* C4: ParseSizeString multiplies the numeric part by the multiplier of the
\* trailing unit suffix (KB 1000, KiB 1024, MB 1000^2, MiB 1024^2, GB 1000^3,
\* GiB 1024^3, anything else or nothing 1) and truncates to an integer.
C4_UnitSuffixTable ==
  call.op = "ParseSizeString" =>
    call.ret = FloorOfHundredths(DocumentedMultiplier(call.unit), call.num.h)

C4_Witness ==
  /\ call.op = "ParseSizeString"
  /\ call.unit = <<"G", "i", "B">>
  /\ call.num.h = 125
  /\ call.ret = 1342177280

\* floor(n * 125 / 128)
ScaleToDecimal(n) == 125 * (n \div 128) + (125 * (n % 128)) \div 128

AbsDiff(a, b) == IF a >= b THEN a - b ELSE b - a

\* C5 as stated: parsing the formatted size gives a byte count within 0.005
\* of the selected unit of the original, and exactly the original when it is
\* rendered in plain bytes.
C5_RoundTripWithinTolerance ==
  call.op = "ToSizeString" =>
    LET n      == call.qwSize
        parsed == ParseSizeString(call.ret)
        suffix == SuffixPart(call.ret)
    IN  CASE suffix = <<"K", "B">> -> AbsDiff(parsed, n) <= 1024 \div 200
          [] suffix = <<"M", "B">> -> AbsDiff(parsed, n) <= 1048576 \div 200
          [] suffix = <<"G", "B">> -> AbsDiff(parsed, n) <= 1073741824 \div 200
          [] OTHER -> parsed = n

\* C5 amended: the round trip is exact for a size rendered in plain bytes;
\* for a size rendered in KB, MB or GB the parser reads the suffix as a power
\* of 1000 while the formatter divided by a power of 1024, so the result is
\* within 0.005 of the decimal unit (plus truncation) of n * (1000/1024)^k.
C5_RoundTripDecimalReading ==
  call.op = "ToSizeString" =>
    LET n      == call.qwSize
        parsed == ParseSizeString(call.ret)
        suffix == SuffixPart(call.ret)
    IN  CASE suffix = <<"K", "B">> ->
               AbsDiff(parsed, ScaleToDecimal(n)) <= 5 + 2
          [] suffix = <<"M", "B">> ->
               AbsDiff(parsed, ScaleToDecimal(ScaleToDecimal(n))) <= 5000 + 3
          [] suffix = <<"G", "B">> ->
               AbsDiff(parsed, ScaleToDecimal(ScaleToDecimal(ScaleToDecimal(n))))
                 <= 5000000 + 4
          [] OTHER -> parsed = n

C5_Witness ==
  /\ call.op = "ToSizeString"
  /\ call.qwSize = 1610612737
  /\ ParseSizeString(call.ret) = 1500000000

(***************************************************************************)
(* Claims about the file functions                                         *)
(***************************************************************************)
HandleOps ==
  { "GetFileAge", "GetFileLastModifiedDate", "GetFileSize", "FileExists",
    "ReadFromFile", "SaveToFile" }

\* C1: every operation that opens a handle has closed it when it returns,
\* whatever the OS calls inside it did: as many handles are open at return
\* as at entry.
C1_HandleClosedOnEveryExit ==
  call.op \in HandleOps => openHandles = call.entry

\* C6: a query on a path at which nothing exists returns its failure
\* sentinel; FileExists on the empty path answers false without an open
\* attempt; FolderExists answers false for a path that is a file.
C6_NonexistentPathSentinels ==
  /\ (call.op \in QueryFns /\ call.kind = "none") =>
       CASE call.op = "GetFileAge" -> call.ret = 0
         [] call.op = "GetFileLastModifiedDate" -> call.ret = <<>>
         [] call.op = "GetFileSize" -> call.ret = [HighPart |-> 0, LowPart |-> 0]
         [] OTHER -> call.ret = FALSE
  /\ (call.op = "FileExists" /\ call.path = <<>>) =>
       call.ret = FALSE /\ call.attempts = 0
  /\ (call.op = "FolderExists" /\ call.kind = "file") => call.ret = FALSE

C6_Witness ==
  /\ call.op = "GetFileSize"
  /\ call.path = FilePath
  /\ call.kind = "none"
  /\ call.attempts = 1

\* C7: with take_backup the previous contents of path are in path.bak when
\* SaveToFile returns; when it returns true path holds the new data; without
\* take_backup path.bak is left as it was.
C7_BackupBeforeWrite ==
  call.op = "SaveToFile" =>
    /\ (call.take_backup /\ call.before[FilePath].kind = "file") =>
         fs[BakPath] = call.before[FilePath]
    /\ call.ret => fs[FilePath] = FileNode(call.data, 0, call.length)
    /\ ~call.take_backup => fs[BakPath] = call.before[BakPath]

\* C9: ReadFromFile returns true only when the whole file was read (output
\* has the size the size query reported and that many bytes were read); it
\* returns false when the open, the size query or the read fails or fewer
\* bytes than the file size were read; output is untouched when the open
\* fails.
C9_TrueOnlyForWholeFile ==
  call.op = "ReadFromFile" =>
    /\ call.ret =>
         /\ call.output.size = call.reported
         /\ [HighPart |-> 0, LowPart |-> call.bytes_read] = call.reported
    /\ call.opened = 0 => (~call.ret /\ call.output = call.given)
    /\ (~call.sizeOk \/ ~call.readOk) => ~call.ret

(***************************************************************************)
(* Claims about the shell launch                                           *)
(***************************************************************************)

\* "handler" "extended path" parameters
HandlerCommandLine(handler, path, parameters) ==
  <<QUOTE>> \o handler \o <<QUOTE, " ", QUOTE>>
  \o (IF HasExtPrefix(path) THEN path
      ELSE IF HasUncPrefix(path)
      THEN <<BS, BS, "?", BS, "U", "N", "C", BS>> \o SubSeq(path, 3, Len(path))
      ELSE <<BS, BS, "?", BS>> \o path)
  \o <<QUOTE, " ">> \o parameters

RegisteredHandler(reg, path) ==
  IF Len(path) >= 4 /\ SubSeq(path, Len(path) - 3, Len(path)) = reg.extension
  THEN reg.handler
  ELSE <<>>

ViaHandler ==
  /\ call.shell = <<>>
  /\ RegisteredHandler(call.reg, call.path) = <<>> =>
       (call.ret = FALSE /\ call.spawn = <<>>)
  /\ RegisteredHandler(call.reg, call.path) # <<>> =>
       call.spawn = <<HandlerCommandLine(RegisteredHandler(call.reg, call.path),
                                         call.path, call.parameters)>>
  /\ call.ret = call.created
  /\ call.created => call.spawn # <<>>

\* C10: Execute launches nothing and returns false for an empty path, goes
\* only through ExecuteFile (never the shell API) for a path longer than
\* MAX_PATH and only through the shell API otherwise; ExecuteFile spawns the
\* registered handler with the quoted handler path, the quoted
\* extended-length path and the parameters, spawns nothing and returns false
\* when no handler is registered, and returns true only when the process
\* was created.
C10_OneLaunchRoute ==
  /\ call.op = "Execute" =>
       /\ Len(call.shell) + Len(call.spawn) <= 1
       /\ call.path = <<>> =>
            (call.ret = FALSE /\ call.shell = <<>> /\ call.spawn = <<>>)
       /\ Len(call.path) > 260 => ViaHandler
       /\ (call.path # <<>> /\ Len(call.path) <= 260) =>
            /\ call.spawn = <<>>
            /\ call.shell = <<[file |-> call.path, parameters |-> call.parameters]>>
  /\ call.op = "ExecuteFile" => ViaHandler

C10_Witness ==
  /\ call.op = "Execute"
  /\ Len(call.path) = 261
  /\ call.ret = TRUE
  /\ call.shell = <<>>
  /\ Len(call.spawn) = 1

(***************************************************************************)
(* Claims about the directory enumeration                                  *)
(***************************************************************************)
Range(seq) == { seq[i] : i \in 1..Len(seq) }

TopLevel(entries) == Range(entries)

SecondLevel(entries) == UNION { Range(e.entries) : e \in Range(entries) }

ThirdLevel(entries) == UNION { Range(e.entries) : e \in SecondLevel(entries) }

FileNames(level) == { e.cFileName : e \in { x \in level : ~x.directory } }

FolderNames(level) ==
  { e.cFileName : e \in { x \in level : x.directory } } \ { <<".">>, <<".", ".">> }

SameIgnoringCase(a, b) ==
  /\ Len(a) = Len(b)
  /\ \A i \in 1..Len(a) : ToLowerChar(a[i]) = ToLowerChar(b[i])

\* name ends in a dot followed by ext, and ext holds no dot.
HasExtension(name, ext) ==
  /\ Len(name) > Len(ext)
  /\ name[Len(name) - Len(ext)] = "."
  /\ SameIgnoringCase(SubSeq(name, Len(name) - Len(ext) + 1, Len(name)), ext)

Appended(given, list) == SubSeq(list, Len(given) + 1, Len(list))

\* C8: PopulateFiles keeps what file_list held, appends only names of files
\* whose extension equals the filter ignoring case (of any file when the
\* filter is empty), only of top-level files when recursive is false, and
\* returns the number of names appended; PopulateFolders appends only names
\* of top-level directories and returns the number appended.
C8_FilteredShallowListing ==
  /\ call.op = "PopulateFiles" =>
       LET added == Appended(call.given, call.file_list)
           files == IF call.recursive
                    THEN FileNames(TopLevel(call.entries)
                                   \cup SecondLevel(call.entries)
                                   \cup ThirdLevel(call.entries))
                    ELSE FileNames(TopLevel(call.entries))
       IN  /\ SubSeq(call.file_list, 1, Len(call.given)) = call.given
           /\ call.ret = Len(added)
           /\ \A i \in 1..Len(added) :
                \E name \in files :
                  /\ added[i] = IF call.trim_extension
                                THEN GetFileWithoutExtension(name) ELSE name
                  /\ call.extension # <<>> => HasExtension(name, call.extension)
  /\ call.op = "PopulateFolders" =>
       LET added == Appended(call.given, call.folder_list)
       IN  /\ SubSeq(call.folder_list, 1, Len(call.given)) = call.given
           /\ call.ret = Len(added)
           /\ \A i \in 1..Len(added) :
                added[i] \in FolderNames(TopLevel(call.entries))

C8_Witness ==
  /\ call.op = "PopulateFiles"
  /\ call.given # <<>>
  /\ call.extension = <<"m", "k", "v">>
  /\ ~call.recursive
  /\ ~call.trim_extension
  /\ call.ret = 2
  /\ Appended(call.given, call.file_list) =
       << <<"a", ".", "m", "k", "v">>, <<"b", ".", "M", "K", "V">> >>

====
